---- MODULE Spec2Model ----
(***************************************************************************)
(* State-machine model of nofus (src/src/main.rs): the mount prober        *)
(* is_mount_point, the watch registry `watches`, the startup probe pass,   *)
(* the observation loop of main and the two dispatch handlers all_mounted  *)
(* and any_unmounted.  The OS (mount table, path resolution, the inotify   *)
(* instance and its event queue, the outcome of a spawned command) is the  *)
(* environment.                                                            *)
(***************************************************************************)
EXTENDS Integers, Sequences, FiniteSets, TLC

(* ------------------------------ bounds -------------------------------- *)
\* longest configured mount_points list
MaxPaths == 2
\* capacity of the inotify event queue
MaxQueue == 1
\* number of mount / unmount changes the environment makes in one run
MaxEnvChanges == 2
\* longest mount table of the prober's input space
MaxMtab == 2

(* --------------------------- value spaces ----------------------------- *)
\* configured path strings; "a2" is a second name (symlink) of directory "a"
Paths == {"a", "a2", "b"}
\* canonical directories
Dirs == {"/a", "/b"}
\* failed canonicalization
NoDir == "none"
\* where each path string leads while every path resolves
Resolve(p) == IF p = "b" THEN "/b" ELSE "/a"
\* the destination string the mount table lists for a mounted directory
DestOf(d) == IF d = "/b" THEN "b" ELSE "a"
\* a mount table line that fails to parse
BadEntry == [ok |-> FALSE, dest |-> "?"]
OkEntry(p) == [ok |-> TRUE, dest |-> p]
Entries == {BadEntry} \cup {OkEntry(p) : p \in Paths}
NoVisit == [phase |-> "none", path |-> "", mounted |-> FALSE,
            had_entry |-> FALSE, attempted |-> FALSE, failed |-> FALSE]
NoProbe == "not_called"

SeqsUpTo(S, n) == UNION {[1..k -> S] : k \in 0..n}

VARIABLES
    \* Config and Cli
    mount_points, dry_run, all_mounted_cmd, any_unmounted_cmd,
    \* main's position and locals
    pc, i, watches, current_state, new_state, events, panic_msg,
    \* environment: path resolution, /proc/mounts, the inotify instance
    canon, mtab_ok, mtab, kwatch, queue, env_left,
    \* history: what main did.  slept: main slept since its last read_events;
    \* tick: flips each time the loop is re-entered through `continue`
    dispatches, statuses, prev_agg, last_read, slept, tick, visit,
    \* a single call of the prober: its argument and, once it returned, <<result>>
    probe_arg, probe_ret

cfgVars == <<mount_points, dry_run, all_mounted_cmd, any_unmounted_cmd>>
progVars == <<pc, i, watches, current_state, new_state, events, panic_msg>>
fsVars == <<canon, mtab_ok, mtab>>
inoVars == <<kwatch, queue>>
histVars == <<dispatches, statuses, prev_agg, last_read, slept, tick, visit>>
probeVars == <<probe_arg, probe_ret>>
vars == <<cfgVars, progVars, fsVars, inoVars, env_left, histVars, probeVars>>

(* --------------------------- Mount Prober ----------------------------- *)
\* PathBuf::canonicalize: Ok(directory) or Err (NoDir)
canonicalize(p) == canon[p]

\* .filter_map(Result::ok): drop the mount table lines that failed to parse
RECURSIVE FilterOk(_)
FilterOk(s) ==
    IF s = <<>> THEN <<>>
    ELSE IF Head(s).ok THEN <<Head(s).dest>> \o FilterOk(Tail(s))
    ELSE FilterOk(Tail(s))

\* .filter_map(|m| m.dest.canonicalize().ok()): drop unresolvable destinations
RECURSIVE FilterCanon(_)
FilterCanon(s) ==
    IF s = <<>> THEN <<>>
    ELSE IF canonicalize(Head(s)) # NoDir
         THEN <<canonicalize(Head(s))>> \o FilterCanon(Tail(s))
    ELSE FilterCanon(Tail(s))

\* .any(|p| p == canonical_path)
RECURSIVE AnyEq(_, _)
AnyEq(s, c) ==
    IF s = <<>> THEN FALSE
    ELSE IF Head(s) = c THEN TRUE
    ELSE AnyEq(Tail(s), c)

\* mutant: the strings are compared as given, neither side canonicalized
is_mount_point_raw(path) ==
    IF canonicalize(path) = NoDir THEN FALSE
    ELSE IF ~mtab_ok THEN FALSE
    ELSE AnyEq(FilterOk(mtab), path)

is_mount_point(path) ==
    IF canonicalize(path) = NoDir THEN FALSE
    ELSE IF ~mtab_ok THEN FALSE
    ELSE AnyEq(FilterCanon(FilterOk(mtab)), canonicalize(path))

(* --------------------------- Watch Registry --------------------------- *)
\* HashMap::contains_key
contains_key(w, p) == p \in DOMAIN w
\* HashMap::insert (overwrites)
insert(w, p, wd) == [q \in (DOMAIN w) \cup {p} |-> IF q = p THEN wd ELSE w[q]]
\* HashMap::remove
remove(w, p) == [q \in (DOMAIN w) \ {p} |-> w[q]]
\* the keys that watches.iter().find(|(_, wd)| **wd == event.wd) may return:
\* the iteration order of a HashMap is unspecified
find_candidates(w, wd) == {p \in DOMAIN w : w[p] = wd}

\* the descriptors some watch, registry entry or undelivered event still names
WdsInUse ==
    {kwatch[d] : d \in DOMAIN kwatch} \cup {watches[p] : p \in DOMAIN watches}
    \cup {queue[k].wd : k \in 1..Len(queue)} \cup {events[k].wd : k \in 1..Len(events)}

\* a descriptor the kernel hands out for a new watch.  The kernel never hands
\* out a number it used before; the program only compares descriptors, so the
\* least number nothing names any more stands for it.
FreshWd == CHOOSE n \in 1..(Cardinality(WdsInUse) + 1) :
               /\ n \notin WdsInUse
               /\ \A m \in 1..(n - 1) : m \in WdsInUse

\* inotify_add_watch on a directory: the descriptor already watching that
\* directory if there is one, else a new one
add_wd(d) == IF kwatch[d] # 0 THEN kwatch[d] ELSE FreshWd

(* ------------------------- Command Dispatcher ------------------------- *)
\* what the spawned shell does: exits 0, exits non-zero, or cannot be spawned
CmdOutcomes == {"exit0", "nonzero", "spawn_failed"}

\* mutant: only a failed spawn is an error, the exit status is not looked at
run_command_spawned(outcome) == IF outcome = "spawn_failed" THEN "Err" ELSE "Ok"

\* run_command: Ok(()) exactly for a spawned command whose status is success
run_command(outcome) == IF outcome = "exit0" THEN "Ok" ELSE "Err"

\* the body shared by all_mounted and any_unmounted: the log line of the
\* handler, then either run_command(cmd).expect(..) or the dry-run notice
Handle(handler, cmd, dr, outcome, nxt) ==
    /\ dispatches' = Append(dispatches,
           [handler |-> handler, cmd |-> cmd,
            executed |-> ~dr,
            outcome |-> IF dr THEN "none" ELSE outcome,
            result |-> IF dr THEN "skipped" ELSE run_command(outcome),
            notice |-> IF dr THEN cmd ELSE ""])
    /\ IF ~dr /\ run_command(outcome) = "Err"
       THEN pc' = "panicked" /\ panic_msg' = "Failed to run command"
       ELSE pc' = nxt /\ panic_msg' = panic_msg

\* mutant: the handler runs its command whatever dry_run says
any_unmounted_always(cmd, dr, outcome, nxt) ==
    Handle("any_unmounted", cmd, FALSE, outcome, nxt)

all_mounted(cmd, dr, outcome, nxt) == Handle("all_mounted", cmd, dr, outcome, nxt)

any_unmounted(cmd, dr, outcome, nxt) == Handle("any_unmounted", cmd, dr, outcome, nxt)

(* ------------------------------ history ------------------------------- *)
\* the aggregate of a list of probe results
AllTrue(s) == \A k \in 1..Len(s) : s[k]

\* failed: the installation was attempted and watches().add returned Err
Visit(phase, path, m, had, att, ok) ==
    [phase |-> phase, path |-> path, mounted |-> m, had_entry |-> had, attempted |-> att,
     failed |-> att /\ ~ok]

(* --------------------------- watch install ---------------------------- *)
\* inotify.watches().add(path, ALL_EVENTS) followed by watches.insert on Ok;
\* ok is the outcome of the system call
TryInstall(path, ok) ==
    LET d == canonicalize(path) IN
    IF ok
    THEN /\ watches' = insert(watches, path, add_wd(d))
         /\ kwatch' = [kwatch EXCEPT ![d] = add_wd(d)]
    ELSE UNCHANGED <<watches, kwatch>>

(* ---------------------------- startup pass ---------------------------- *)
\* main.rs 148-158: one visit of the startup loop.  A mounted path gets an
\* installation attempt without a look at the registry.
StartupAttempts(path, m) == m

\* mutant: the last probe decides the initial state
StartupFold_last(state, m) == m

\* main.rs 151, 155-157: an unmounted path clears current_state
StartupFold(state, m) == IF m THEN state ELSE FALSE

StartupVisit ==
    /\ pc = "startup"
    /\ i <= Len(mount_points)
    /\ LET path == mount_points[i]
           m == is_mount_point(path)
           att == StartupAttempts(path, m)
       IN /\ \E ok \in BOOLEAN :
                /\ IF att THEN TryInstall(path, ok)
                   ELSE UNCHANGED <<watches, kwatch>>
                /\ visit' = Visit("startup", path, m, contains_key(watches, path), att, ok)
          /\ current_state' = StartupFold(current_state, m)
          /\ statuses' = Append(statuses, m)
    /\ i' = i + 1
    /\ UNCHANGED <<cfgVars, pc, new_state, events, panic_msg, fsVars, queue, env_left,
                   dispatches, prev_agg, last_read, slept, tick, probeVars>>

\* main.rs 165-171: the initial dispatch, then the loop is entered
StartupDispatch ==
    /\ pc = "startup"
    /\ i > Len(mount_points)
    /\ \E outcome \in CmdOutcomes :
          IF current_state
          THEN all_mounted(all_mounted_cmd, dry_run, outcome, "read")
          ELSE any_unmounted(any_unmounted_cmd, dry_run, outcome, "read")
    /\ prev_agg' = AllTrue(statuses)
    /\ statuses' = <<>>
    /\ visit' = NoVisit
    /\ UNCHANGED <<cfgVars, i, watches, current_state, new_state, events, fsVars, inoVars,
                   env_left, last_read, slept, tick, probeVars>>

(* -------------------------- observation loop -------------------------- *)
\* what inotify.read_events can return on the non-blocking descriptor
ReadOutcomes == {"ok", "would_block", "error"}

\* mutant: every Err of read_events is taken for "nothing pending"
OnRead_lenient(r) ==
    CASE r = "ok" ->
            /\ events' = queue
            /\ queue' = <<>>
            /\ pc' = "events"
            /\ panic_msg' = panic_msg
      [] OTHER ->
            /\ pc' = "read"
            /\ UNCHANGED <<events, queue, panic_msg>>

\* main.rs 185-190: the match on the result of read_events
OnRead(r) ==
    CASE r = "ok" ->
            /\ events' = queue
            /\ queue' = <<>>
            /\ pc' = "events"
            /\ panic_msg' = panic_msg
      [] r = "would_block" ->
            \* `continue`: straight back to the top of the loop
            /\ pc' = "read"
            /\ UNCHANGED <<events, queue, panic_msg>>
      [] OTHER ->
            /\ pc' = "panicked"
            /\ panic_msg' = "Error while reading events"
            /\ UNCHANGED <<events, queue>>

\* main.rs 180-190: top of an iteration
ReadEvents ==
    /\ pc = "read"
    /\ \E r \in ReadOutcomes :
          /\ r = "ok" => queue # <<>>
          /\ r = "would_block" => queue = <<>>
          /\ OnRead(r)
          /\ last_read' = r
    /\ slept' = FALSE
    /\ tick' = IF pc' = "read" THEN ~tick ELSE FALSE
    /\ UNCHANGED <<cfgVars, i, watches, current_state, new_state, fsVars, kwatch,
                   env_left, dispatches, statuses, prev_agg, visit, probeVars>>

\* mutant: the IGNORED flag is not looked at
OnEvent_anymask(e, w) ==
    IF find_candidates(w, e.wd) = {}
    THEN {w}
    ELSE {remove(w, p) : p \in find_candidates(w, e.wd)}

\* main.rs 193-203: what one event does to the registry
OnEvent(e, w) ==
    IF e.ignored
    THEN IF find_candidates(w, e.wd) = {}
         THEN {w}
         ELSE {remove(w, p) : p \in find_candidates(w, e.wd)}
    ELSE {w}

\* main.rs 192-204: one turn of `for event in events`
ProcessEvent ==
    /\ pc = "events"
    /\ events # <<>>
    /\ watches' \in OnEvent(Head(events), watches)
    /\ events' = Tail(events)
    /\ UNCHANGED <<cfgVars, pc, i, current_state, new_state, panic_msg, fsVars, inoVars,
                   env_left, histVars, probeVars>>

\* main.rs 206-207: the events are done, the probe pass starts
BeginPass ==
    /\ pc = "events"
    /\ events = <<>>
    /\ pc' = "probe"
    /\ i' = 1
    /\ new_state' = TRUE
    /\ UNCHANGED <<cfgVars, watches, current_state, events, panic_msg, fsVars, inoVars,
                   env_left, histVars, probeVars>>

\* main.rs 214: the guard of the installation attempt in the loop
LoopAttempts(path, m) == m /\ ~contains_key(watches, path)

\* mutant: the last probe decides the aggregate
LoopFold_last(state, m) == m

\* main.rs 221-223
LoopFold(state, m) == IF ~m THEN FALSE ELSE state

\* main.rs 210-224: one visit of the probe pass
LoopVisit ==
    /\ pc = "probe"
    /\ i <= Len(mount_points)
    /\ LET path == mount_points[i]
           m == is_mount_point(path)
           att == LoopAttempts(path, m)
       IN /\ \E ok \in BOOLEAN :
                /\ IF att THEN TryInstall(path, ok)
                   ELSE UNCHANGED <<watches, kwatch>>
                /\ visit' = Visit("loop", path, m, contains_key(watches, path), att, ok)
          /\ new_state' = LoopFold(new_state, m)
          /\ statuses' = Append(statuses, m)
    /\ i' = i + 1
    /\ UNCHANGED <<cfgVars, pc, current_state, events, panic_msg, fsVars, queue, env_left,
                   dispatches, prev_agg, last_read, slept, tick, probeVars>>

\* mutant: every cycle counts as a change
StateChanged_always(new, cur) == TRUE

\* mutant: the dispatch follows the level of the aggregate, not its change
StateChanged_level(new, cur) == ~new

\* main.rs 227: has the aggregate changed
StateChanged(new, cur) == new # cur

\* main.rs 226-243: the transition check and the dispatch it may trigger
TransitionCheck ==
    /\ pc = "probe"
    /\ i > Len(mount_points)
    /\ IF StateChanged(new_state, current_state)
       THEN /\ current_state' = new_state
            /\ \E outcome \in CmdOutcomes :
                  IF new_state
                  THEN all_mounted(all_mounted_cmd, dry_run, outcome, "sleep")
                  ELSE any_unmounted(any_unmounted_cmd, dry_run, outcome, "sleep")
       ELSE /\ pc' = "sleep"
            /\ UNCHANGED <<current_state, dispatches, panic_msg>>
    /\ UNCHANGED <<cfgVars, i, watches, new_state, events, fsVars, inoVars, env_left,
                   statuses, prev_agg, last_read, slept, tick, visit, probeVars>>

\* mutant: the loop is left after the first full iteration
Sleep_break ==
    /\ pc = "sleep"
    /\ pc' = "done"
    /\ UNCHANGED <<cfgVars, i, watches, current_state, new_state, events, panic_msg,
                   fsVars, inoVars, env_left, histVars, probeVars>>

\* main.rs 246: thread::sleep(delay_seconds), then the next iteration
Sleep ==
    /\ pc = "sleep"
    /\ pc' = "read"
    /\ slept' = TRUE
    /\ tick' = FALSE
    /\ prev_agg' = AllTrue(statuses)
    /\ statuses' = <<>>
    /\ visit' = NoVisit
    /\ last_read' = "none"
    /\ UNCHANGED <<cfgVars, i, watches, current_state, new_state, events, panic_msg,
                   fsVars, inoVars, env_left, dispatches, probeVars>>

(* ----------------------------- environment ---------------------------- *)
\* the environment is followed while the monitor process is alive
Running == pc # "panicked"

IsMounted(d) == \E k \in 1..Len(mtab) : mtab[k] = OkEntry(DestOf(d))

RECURSIVE Without(_, _)
Without(s, e) ==
    IF s = <<>> THEN <<>>
    ELSE IF Head(s) = e THEN Without(Tail(s), e)
    ELSE <<Head(s)>> \o Without(Tail(s), e)

\* a filesystem is mounted on directory d
EnvMount(d) ==
    /\ Running
    /\ env_left > 0
    /\ ~IsMounted(d)
    /\ mtab' = Append(mtab, OkEntry(DestOf(d)))
    /\ env_left' = env_left - 1
    /\ UNCHANGED <<cfgVars, progVars, canon, mtab_ok, inoVars, histVars, probeVars>>

\* directory d is unmounted: the kernel drops the watch on it and, when
\* notify holds and the queue has room, queues IN_IGNORED for its descriptor
EnvUnmount(d, notify) ==
    /\ Running
    /\ env_left > 0
    /\ IsMounted(d)
    /\ mtab' = Without(mtab, OkEntry(DestOf(d)))
    /\ env_left' = env_left - 1
    /\ kwatch' = [kwatch EXCEPT ![d] = 0]
    /\ queue' = IF kwatch[d] # 0 /\ notify /\ Len(queue) < MaxQueue
                THEN Append(queue, [wd |-> kwatch[d], ignored |-> TRUE])
                ELSE queue
    /\ UNCHANGED <<cfgVars, progVars, canon, mtab_ok, histVars, probeVars>>

\* some access to a watched directory: an event without the IGNORED flag
EnvActivity(d) ==
    /\ Running
    /\ kwatch[d] # 0
    /\ Len(queue) < MaxQueue
    /\ queue' = Append(queue, [wd |-> kwatch[d], ignored |-> FALSE])
    /\ UNCHANGED <<cfgVars, progVars, fsVars, kwatch, env_left, histVars,
                   probeVars>>

(* --------------------------- specification ---------------------------- *)
EmptyMap == [q \in {} |-> 0]

\* the mount tables the program can find at startup
InitialMtabs ==
    {<<>>, <<OkEntry("a")>>, <<OkEntry("b")>>, <<OkEntry("a"), OkEntry("b")>>}

Init ==
    /\ mount_points \in SeqsUpTo(Paths, MaxPaths)
    /\ dry_run \in BOOLEAN
    /\ all_mounted_cmd = "cmd_up"
    /\ any_unmounted_cmd = "cmd_down"
    /\ pc = "startup"
    /\ i = 1
    /\ watches = EmptyMap
    /\ current_state = TRUE
    /\ new_state = TRUE
    /\ events = <<>>
    /\ panic_msg = ""
    /\ canon = [p \in Paths |-> Resolve(p)]
    /\ mtab_ok = TRUE
    /\ mtab \in InitialMtabs
    /\ kwatch = [d \in Dirs |-> 0]
    /\ queue = <<>>
    /\ env_left = MaxEnvChanges
    /\ dispatches = <<>>
    /\ statuses = <<>>
    /\ prev_agg = TRUE
    /\ last_read = "none"
    /\ slept = TRUE
    /\ tick = FALSE
    /\ visit = NoVisit
    /\ probe_arg = NoProbe
    /\ probe_ret = <<>>

Program ==
    \/ StartupVisit
    \/ StartupDispatch
    \/ ReadEvents
    \/ ProcessEvent
    \/ BeginPass
    \/ LoopVisit
    \/ TransitionCheck
    \/ Sleep

Environment ==
    \/ \E d \in Dirs : EnvMount(d)
    \/ \E d \in Dirs, notify \in BOOLEAN : EnvUnmount(d, notify)
    \/ \E d \in Dirs : EnvActivity(d)

Next == Program \/ Environment

Spec == Init /\ [][Next]_vars

\* the monitor keeps running: a step of main that is not a fatal error.  A
\* live process always takes its next step; nothing forces a fault.
Progress == Program /\ pc' # "panicked"

FairSpec == Spec /\ WF_vars(Progress)

(* ----------------- the prober alone, over its input space -------------- *)
InitProbe ==
    /\ mount_points = <<>>
    /\ dry_run = TRUE
    /\ all_mounted_cmd = "cmd_up"
    /\ any_unmounted_cmd = "cmd_down"
    /\ pc = "prober"
    /\ i = 1
    /\ watches = EmptyMap
    /\ current_state = TRUE
    /\ new_state = TRUE
    /\ events = <<>>
    /\ panic_msg = ""
    /\ canon \in [Paths -> Dirs \cup {NoDir}]
    /\ mtab_ok \in BOOLEAN
    /\ mtab \in SeqsUpTo(Entries, MaxMtab)
    /\ kwatch = [d \in Dirs |-> 0]
    /\ queue = <<>>
    /\ env_left = 0
    /\ dispatches = <<>>
    /\ statuses = <<>>
    /\ prev_agg = TRUE
    /\ last_read = "none"
    /\ slept = TRUE
    /\ tick = FALSE
    /\ visit = NoVisit
    /\ probe_arg \in Paths
    /\ probe_ret = <<>>

\* one call is_mount_point(probe_arg)
ProbeCall ==
    /\ pc = "prober"
    /\ probe_ret = <<>>
    /\ probe_ret' = <<is_mount_point(probe_arg)>>
    /\ UNCHANGED <<cfgVars, progVars, fsVars, inoVars, env_left, histVars, probe_arg>>

NextProbe == ProbeCall

SpecProbe == InitProbe /\ [][NextProbe]_vars

(* ============================== claims ================================ *)
Last(s) == s[Len(s)]
InLoop == pc \in {"read", "events", "probe", "sleep"}
PassDone == i > Len(mount_points)
HandlerOf(agg) == IF agg THEN "all_mounted" ELSE "any_unmounted"
CmdOf(agg) == IF agg THEN all_mounted_cmd ELSE any_unmounted_cmd
Configured == {mount_points[k] : k \in 1..Len(mount_points)}

\* C1: in a cycle that reaches the transition check, a command is dispatched
\* iff the aggregate of this cycle's probe results differs from the aggregate
\* of the previous pass (the startup pass for the first cycle); then exactly
\* one log entry is added, of the handler and command of the new aggregate.
\* No other step of the loop dispatches.
C1_DispatchPerChange ==
    [][/\ (pc = "probe" /\ PassDone /\ pc' # "probe") =>
            IF AllTrue(statuses) # prev_agg
            THEN /\ Len(dispatches') = Len(dispatches) + 1
                 /\ SubSeq(dispatches', 1, Len(dispatches)) = dispatches
                 /\ Last(dispatches').handler = HandlerOf(AllTrue(statuses))
                 /\ Last(dispatches').cmd = CmdOf(AllTrue(statuses))
            ELSE dispatches' = dispatches
       /\ (InLoop /\ ~(pc = "probe" /\ PassDone)) => dispatches' = dispatches
      ]_vars

C1_Witness ==
    /\ pc = "sleep"
    /\ Len(dispatches) = 3
    /\ AllTrue(statuses) # prev_agg
    /\ Last(dispatches).handler = "all_mounted"

\* C2: after the startup pass current_state, and after every probe pass
\* new_state, is TRUE iff every probe of the pass returned TRUE (TRUE for an
\* empty mount_points); during a pass the same holds of the probes so far.
C2_AggregateIsConjunction ==
    /\ pc = "startup" => /\ current_state = AllTrue(statuses)
                         /\ Len(statuses) = i - 1
    /\ pc = "probe" => /\ new_state = AllTrue(statuses)
                       /\ Len(statuses) = i - 1
    /\ pc \in {"startup", "probe"} /\ PassDone => Len(statuses) = Len(mount_points)

C2_Witness ==
    /\ pc = "probe"
    /\ PassDone
    /\ statuses = <<FALSE, TRUE>>
    /\ ~new_state

\* C3: with dry_run no dispatch executes a command: every log entry is a
\* would-run notice carrying the configured command text, the monitor never
\* dies of a failed command, and current_state is the state the latest
\* dispatch announced.
C3_DryRunNeverExecutes ==
    dry_run =>
        /\ \A k \in 1..Len(dispatches) :
              /\ ~dispatches[k].executed
              /\ dispatches[k].result = "skipped"
              /\ dispatches[k].notice = dispatches[k].cmd
              /\ dispatches[k].cmd = CmdOf(dispatches[k].handler = "all_mounted")
        /\ panic_msg # "Failed to run command"
        /\ pc # "startup" =>
              /\ dispatches # <<>>
              /\ current_state = (Last(dispatches).handler = "all_mounted")

C3_Witness ==
    /\ dry_run
    /\ pc = "sleep"
    /\ Len(dispatches) = 3
    /\ Last(dispatches).handler = "any_unmounted"

\* C4: nothing is dispatched during the startup pass; the step that leaves
\* startup adds exactly one log entry, of the handler and command of the
\* aggregate of the startup probes, and current_state is that aggregate.
C4_InitialDispatch ==
    [][/\ pc = "startup" => dispatches = <<>>
       /\ (pc = "startup" /\ pc' # "startup") =>
            /\ PassDone
            /\ Len(dispatches') = 1
            /\ dispatches'[1].handler = HandlerOf(AllTrue(statuses))
            /\ dispatches'[1].cmd = CmdOf(AllTrue(statuses))
            /\ current_state' = AllTrue(statuses)
       /\ (pc = "startup" /\ pc' = "read") => Len(dispatches') = 1
      ]_vars

C4_Witness ==
    /\ pc = "read"
    /\ slept
    /\ mount_points = <<"a", "b">>
    /\ Len(dispatches) = 1
    /\ dispatches[1].handler = "any_unmounted"
    /\ ~current_state
    /\ env_left = MaxEnvChanges
    /\ IsMounted("/a")

SomeUnmounted == \E p \in Configured : ~is_mount_point(p)
InstallFailed == visit.attempted /\ visit.path \notin DOMAIN watches

\* C5: in the loop with current_state AllMounted, a configured path that is
\* unmounted and stays so leads to a NotAllMounted dispatch, whatever events
\* arrive (unless the monitor dies of a fatal error); and a NotAllMounted
\* dispatch in the loop is a single entry made from AllMounted only.
C5_UnmountLeadsToOneDispatch ==
    /\ (InLoop /\ current_state /\ SomeUnmounted)
          ~> \/ ~SomeUnmounted
             \/ pc = "panicked"
             \/ /\ ~current_state
                /\ dispatches # <<>>
                /\ Last(dispatches).handler = "any_unmounted"
    /\ [][(InLoop /\ dispatches' # dispatches
                  /\ Last(dispatches').handler = "any_unmounted")
            => (current_state /\ Len(dispatches') = Len(dispatches) + 1)]_vars

\* C6: in the loop with current_state NotAllMounted, once every configured
\* path is mounted and stays so, whatever events arrive, the monitor reaches
\* an AllMounted dispatch with every configured path holding a watch (unless
\* an installation fails or the monitor dies of a fatal error).
C6_RemountLeadsToWatchAndDispatch ==
    (InLoop /\ ~current_state /\ ~SomeUnmounted)
       ~> \/ SomeUnmounted
          \/ pc = "panicked"
          \/ InstallFailed
          \/ /\ current_state
             /\ dispatches # <<>>
             /\ Last(dispatches).handler = "all_mounted"
             /\ \A p \in Configured : p \in DOMAIN watches

\* C7: whenever main is about to call read_events, it has slept since its
\* previous call of read_events (or has not called it yet).
C7_SleepBeforeEveryRead == pc = "read" => slept

\* C8: at every path visit, of the startup pass and of the loop, the watch
\* installation is attempted iff the probe returned mounted and the registry
\* held no entry for the path.
C8_InstallIffMountedAndNoEntry ==
    visit.phase # "none" =>
        (visit.attempted <=> (visit.mounted /\ ~visit.had_entry))

\* C9: is_mount_point returns a boolean, TRUE iff the path canonicalizes, the
\* mount table is readable and some parsable entry's destination
\* canonicalizes to the same directory.
C9_ProbeIffCanonicalMatch ==
    probe_ret # <<>> =>
        /\ probe_ret[1] \in BOOLEAN
        /\ probe_ret[1] <=>
              /\ canon[probe_arg] # NoDir
              /\ mtab_ok
              /\ \E k \in 1..Len(mtab) :
                    /\ mtab[k].ok
                    /\ canon[mtab[k].dest] # NoDir
                    /\ canon[mtab[k].dest] = canon[probe_arg]

C9_Witness ==
    /\ probe_ret = <<TRUE>>
    /\ \A k \in 1..Len(mtab) : mtab[k].ok => mtab[k].dest # probe_arg
    /\ \E k \in 1..Len(mtab) : ~mtab[k].ok

\* C10: a read_events error other than WouldBlock ends the monitor in that
\* step, with current_state, the registry, the dispatch log and the probe
\* history untouched, and nothing runs afterwards; WouldBlock never ends it.
C10_ReadErrorIsFatal ==
    [][/\ (pc = "read" /\ last_read' = "error") =>
            /\ pc' = "panicked"
            /\ panic_msg' = "Error while reading events"
            /\ UNCHANGED <<current_state, watches, dispatches, statuses, visit>>
       /\ (pc = "read" /\ pc' = "panicked") => last_read' = "error"
       /\ (pc = "read" /\ last_read' = "would_block") => pc' = "read"
       /\ pc = "panicked" => UNCHANGED <<progVars, dispatches, statuses, visit>>
      ]_vars

C10_Witness ==
    /\ pc = "panicked"
    /\ last_read = "error"
    /\ current_state
    /\ SomeUnmounted
    /\ Len(dispatches) = 1

\* C11: without dry_run every dispatch runs its command; the run counts as
\* Ok exactly when the command was spawned and exited 0; an Err, of either
\* handler, at the initial dispatch or later, ends the monitor with the
\* message "Failed to run command" and is the last entry of the log.
C11_CommandFailureIsFatal ==
    ~dry_run =>
        /\ \A k \in 1..Len(dispatches) :
              /\ dispatches[k].executed
              /\ dispatches[k].outcome \in CmdOutcomes
              /\ (dispatches[k].result = "Ok") <=> (dispatches[k].outcome = "exit0")
              /\ (dispatches[k].result = "Err") <=> (dispatches[k].outcome # "exit0")
              /\ dispatches[k].result = "Err" =>
                    /\ k = Len(dispatches)
                    /\ pc = "panicked"
                    /\ panic_msg = "Failed to run command"
        /\ panic_msg = "Failed to run command" =>
              /\ dispatches # <<>>
              /\ Last(dispatches).result = "Err"

C11_Witness ==
    /\ ~dry_run
    /\ pc = "panicked"
    /\ Len(dispatches) = 2
    /\ dispatches[1].handler = "any_unmounted"
    /\ dispatches[1].result = "Ok"
    /\ dispatches[2].handler = "all_mounted"
    /\ dispatches[2].outcome = "nonzero"

\* C12: a read_events call that finds nothing pending does not end the
\* iteration: main goes on to the events and the probe pass (last_read is
\* reset by Sleep), so it is never back at the top of the loop with an
\* empty read behind it and no probe pass made.
C12_EmptyReadStillProbes ==
    last_read = "would_block" => pc \in {"events", "probe", "sleep", "panicked"}

\* the step that processes the event at the head of `events`
EventStep == pc = "events" /\ events # <<>> /\ events' = Tail(events)
\* the step that visits mount_points[i], in the startup pass or in the loop
VisitStep == pc \in {"startup", "probe"} /\ ~PassDone /\ i' = i + 1
Holders(w, wd) == {p \in DOMAIN w : w[p] = wd}
\* w2 is w without the entry of p
IsRemoval(w, w2, p) ==
    /\ p \in DOMAIN w
    /\ DOMAIN w2 = (DOMAIN w) \ {p}
    /\ \A q \in DOMAIN w2 : w2[q] = w[q]
\* w2 is w with p bound to a descriptor and every other entry as it was
IsInsertion(w, w2, p) ==
    /\ DOMAIN w2 = (DOMAIN w) \cup {p}
    /\ \A q \in (DOMAIN w) \ {p} : w2[q] = w[q]

\* C13: processing an event changes the registry only if the event carries
\* IGNORED and some entry holds its descriptor: then one entry holding that
\* descriptor is removed and every other entry is as before; otherwise the
\* registry is unchanged.
C13_EventFrame ==
    [][EventStep =>
          IF Head(events).ignored /\ Holders(watches, Head(events).wd) # {}
          THEN \E p \in Holders(watches, Head(events).wd) : IsRemoval(watches, watches', p)
          ELSE watches' = watches
      ]_vars

\* "a" was given descriptor 1 before "b" got 2, and its entry is gone
C13_Witness ==
    /\ pc = "events"
    /\ events = <<>>
    /\ mount_points = <<"a", "b">>
    /\ DOMAIN watches = {"b"}
    /\ watches["b"] = 2

\* C14: a path visit never removes or rebinds an entry of another path and
\* never removes the entry of its own path; the registry changes only by the
\* removal of an entry when an IGNORED event is processed, and by the
\* insertion of an entry for a path that is probed mounted and has none.
C14_RegistryChanges ==
    [][/\ VisitStep => DOMAIN watches \subseteq DOMAIN watches'
       /\ (VisitStep /\ ~is_mount_point(mount_points[i])) => watches' = watches
       /\ watches' # watches =>
            \/ /\ EventStep
               /\ Head(events).ignored
               /\ \E p \in Holders(watches, Head(events).wd) : IsRemoval(watches, watches', p)
            \/ /\ VisitStep
               /\ is_mount_point(mount_points[i])
               /\ mount_points[i] \notin DOMAIN watches
               /\ IsInsertion(watches, watches', mount_points[i])
      ]_vars

\* C15: a failed installation leaves its path without an entry and does not
\* end the monitor; a path visit folds the probe result into the aggregate
\* whatever the installation did; and every loop visit of a path that is
\* probed mounted and has no entry attempts the installation, which, when it
\* succeeds, gives the path an entry.
C15_InstallFailureRetried ==
    [][VisitStep =>
          /\ visit'.failed => mount_points[i] \notin DOMAIN watches'
          /\ pc' = pc
          /\ dispatches' = dispatches
          /\ pc = "probe" => new_state' = (new_state /\ is_mount_point(mount_points[i]))
          /\ pc = "startup" =>
                current_state' = (current_state /\ is_mount_point(mount_points[i]))
          /\ (pc = "probe" /\ is_mount_point(mount_points[i])
                           /\ mount_points[i] \notin DOMAIN watches) =>
                /\ visit'.attempted
                /\ ~visit'.failed => mount_points[i] \in DOMAIN watches'
      ]_vars

\* the entry of p names a descriptor the kernel no longer has on p's directory
Stale(p) == p \in DOMAIN watches /\ kwatch[canonicalize(p)] # watches[p]

\* C16: a loop visit that probes a path as mounted while its registry entry
\* is stale (the watch went with the unmount, no IGNORED event removed the
\* entry) installs a fresh watch, which on success replaces the stale handle.
C16_StaleEntryOverwritten ==
    [][(VisitStep /\ pc = "probe" /\ is_mount_point(mount_points[i])
                  /\ Stale(mount_points[i])) =>
          /\ visit'.attempted
          /\ ~visit'.failed =>
                watches'[mount_points[i]] = kwatch'[canonicalize(mount_points[i])]
      ]_vars

\* C17: once an IGNORED event for descriptor h is processed, no registry
\* entry holds h, also when two configured paths were given the same h; and
\* a loop visit of a mounted path without an entry attempts to install.
C17_NoEntryHoldsInvalidHandle ==
    [][/\ (EventStep /\ Head(events).ignored) =>
            Holders(watches', Head(events).wd) = {}
       /\ (VisitStep /\ pc = "probe" /\ is_mount_point(mount_points[i])
                     /\ mount_points[i] \notin DOMAIN watches) => visit'.attempted
      ]_vars

Announced(e) == e.handler = "all_mounted"

\* C18: consecutive dispatches are of different handlers; once the initial
\* dispatch is made, current_state is the state the latest dispatch
\* announced; and in the loop current_state changes only in a step that
\* also dispatches.
C18_DispatchesAlternate ==
    [][/\ \A k \in 1..(Len(dispatches') - 1) :
             dispatches'[k].handler # dispatches'[k + 1].handler
       /\ pc' # "startup" =>
             /\ dispatches' # <<>>
             /\ current_state' = Announced(Last(dispatches'))
       /\ (InLoop /\ current_state' # current_state) =>
             /\ Len(dispatches') = Len(dispatches) + 1
             /\ Announced(Last(dispatches')) = current_state'
       /\ (InLoop /\ dispatches' # dispatches) => current_state' # current_state
      ]_vars

C18_Witness ==
    /\ pc = "sleep"
    /\ Len(dispatches) = 3
    /\ dispatches[1].handler = "all_mounted"
    /\ dispatches[2].handler = "any_unmounted"
    /\ dispatches[3].handler = "all_mounted"
    /\ current_state

\* C19: while the monitor has not died of a fatal error, main always has a
\* next step that is not fatal, whatever the mount statuses, installation
\* outcomes and events; it is dead only after a read_events error other than
\* WouldBlock or a failed command, the latter never with dry_run.
C19_NoExitButFatal ==
  [](
    /\ pc \in {"startup", "read", "events", "probe", "sleep", "panicked"}
    /\ pc # "panicked" => ENABLED Progress
    /\ pc = "panicked" =>
          \/ /\ panic_msg = "Error while reading events"
             /\ last_read = "error"
          \/ /\ panic_msg = "Failed to run command"
             /\ ~dry_run
             /\ dispatches # <<>>
             /\ Last(dispatches).result = "Err"
  )

C19_Witness ==
    /\ dry_run
    /\ pc = "read"
    /\ slept
    /\ Len(dispatches) = 3
    /\ env_left = 0
====
